---- MODULE Spec2Model ----
(***************************************************************************)
(* Lifecycle binding core of the material component library: the          *)
(* Component wrapper, its three-valued status, and the Start / Stop       *)
(* functions of package component, together with an owner (toolbar.T)     *)
(* that stores the *Component pointer.                                     *)
(*                                                                         *)
(* The Go heap is modelled explicitly: every &Component{...} appends a    *)
(* cell to `heap`, and a *Component is an index into it (0 is nil), so    *)
(* that pointer identity and stale external references are observable.    *)
(* Foreign (JavaScript) objects are numbered 1..objs in construction      *)
(* order; 0 is the nil *js.Object.                                         *)
(***************************************************************************)
EXTENDS Integers, Sequences, FiniteSets, TLC

\* Bounds of the exploration.
MaxWrappers == 4
MaxObjects == 3

\* ComponentStatus (iota enumeration).
Uninitialized == 0
Stopped == 1
Running == 2

\* nil *Component and nil *js.Object.
NilComponent == 0
NilObject == 0

\* The rootElem arguments Start distinguishes.
RootNil == "nil"
RootUndefined == "js.Undefined"
RootElem == "HTMLElement"
RootElems == {RootNil, RootUndefined, RootElem}

\* Error values.  NoError is the nil error.
NoError == "nil"
ErrRootElemNil == "rootElem is nil."
ErrAlreadyStarted == "Component already started."
ErrEmptyString == "Empty string in ComponentType"
ErrNoCapability == "The provided component does not implement component.ComponentTyper or component.MDCClasser."
ErrGetComponentNil == "GetComponent() returned nil."
ErrAlreadyStopped == "Component already stopped"
ErrUninitialized == "Component is uninitialized"
\* Errors that originate outside the controller.
ErrAfterStart == "AfterStart: error"
ErrAfterStartFault == "js.Error: AfterStart"
ErrNewFault == "js.Error: new"
ErrDestroyFault == "js.Error: destroy"

\* Name tokens a ComponentType can carry (toolbar.T's, or the empty ones of
\* the embedded Component.ComponentType).
CCaseNames == {"", "textField"}
ClassNames == {"", "MDCTextField"}

\* An owner is described by the interfaces its type implements and by the
\* ComponentType it reports.
Owners ==
    { o \in [ MDCClasser : BOOLEAN, ComponentTyper : BOOLEAN, AfterStarter : BOOLEAN,
              MDCCamelCaseName : CCaseNames, MDCClassName : ClassNames ] :
        (~o.ComponentTyper) => (o.MDCCamelCaseName = "" /\ o.MDCClassName = "") }

\* Outcomes of the calls into the foreign runtime and into the owner's hook
\* during one Start or Stop.
HookOutcomes == {"ok", "error", "fault"}
Envs == [ newFault : BOOLEAN, afterStart : HookOutcomes, destroyFault : BOOLEAN ]

VARIABLES
    owner,      \* the Componenter passed to Start and Stop, as of the last Start
    comp,       \* the owner's *Component field (index into heap, 0 = nil)
    heap,       \* every Component allocated so far, in allocation order
    objs,       \* number of foreign objects constructed so far
    destroyed,  \* foreign objects whose destroy() has returned normally
    held,       \* history: foreign objects the owner's Component has ever held
    alternating,\* history: every call so far was a valid, fault-free alternating Start/Stop
    last,       \* record of the most recent call: inputs, pre-state, error, foreign calls
    cb,         \* checkbox: the checked / indeterminate / disabled fields of its MDC object
    cbSet,      \* checkbox history: argument of the latest SetState that returned
    cbLast      \* checkbox: record of the most recent State or SetState call

lifecycleVars == <<owner, comp, heap, objs, destroyed, held, alternating, last>>
checkboxVars == <<cb, cbSet, cbLast>>
vars == <<owner, comp, heap, objs, destroyed, held, alternating, last,
          cb, cbSet, cbLast>>

----------------------------------------------------------------------------
\* Component{mdc, status}
Component(mdc, status) == [ mdc |-> mdc, status |-> status ]

\* The program state the two functions read and write.
State(c, h, n, d) == [ comp |-> c, heap |-> h, objs |-> n, destroyed |-> d ]

\* c.GetComponent()
GetComponent(st) == st.comp

\* c.SetComponent(&Component{mdc: nil, status: status}): allocate a new cell
\* and make the owner point at it.
SetComponent(st, status) ==
    [ st EXCEPT !.heap = Append(st.heap, Component(NilObject, status)),
                !.comp = Len(st.heap) + 1 ]

\* (*Component).Status()
Status(st) == st.heap[st.comp].status

\* (*Component).GetObject()
GetObject(st) == st.heap[st.comp].mdc

\* Variant of StatusString with the two named cases exchanged.
StatusString_Swapped(s) ==
    CASE s = Stopped -> "running"
      [] s = Running -> "stopped"
      [] OTHER -> "uninitialized"

\* ComponentStatus.String()
StatusString(s) ==
    CASE s = Stopped -> "stopped"
      [] s = Running -> "running"
      [] OTHER -> "uninitialized"

\* (*Component).String()
ComponentString(st) ==
    IF st.comp = NilComponent \/ st.heap[st.comp].status = Uninitialized
    THEN StatusString(Uninitialized)
    ELSE StatusString(Status(st))

----------------------------------------------------------------------------
\* The status Start and Stop see for the owner; an absent Component reads as
\* Uninitialized (String() lines 68-71).
OwnerStatus(st) ==
    IF st.comp = NilComponent THEN Uninitialized ELSE Status(st)

\* The foreign object reachable from the owner, if any.
OwnerObject(st) ==
    IF st.comp = NilComponent THEN NilObject ELSE GetObject(st)

\* What one call reports besides the new state: its error and the calls it
\* made across the foreign boundary, in order.
Result(st, err, resolved, newCalls, hookCalls, hookSaw, destroyCalls, stopErr) ==
    [ st |-> st, err |-> err, resolved |-> resolved, newCalls |-> newCalls,
      hookCalls |-> hookCalls, hookSaw |-> hookSaw,
      destroyCalls |-> destroyCalls, stopErr |-> stopErr ]

\* The value recorded when AfterStart is not invoked.
NoHook == Component(NilObject, Uninitialized)

\* Variant of StopCheck that lets an Uninitialized component through.
StopCheck_NoUninitializedCase(st) ==
    IF GetComponent(st) = NilComponent THEN ErrGetComponentNil
    ELSE IF Status(st) = Stopped THEN ErrAlreadyStopped ELSE NoError

----------------------------------------------------------------------------
\* Stop, lines 174-183: the state checks made before destroy is called.
StopCheck(st) ==
    IF GetComponent(st) = NilComponent THEN ErrGetComponentNil
    ELSE CASE Status(st) = Stopped -> ErrAlreadyStopped
           [] Status(st) = Uninitialized -> ErrUninitialized
           [] OTHER -> NoError

\* Variant of Destroy in which the foreign object is not destroyed.
Destroy_Skip(st) == st

\* Stop, line 184: c.GetComponent().mdc.Call("destroy") returning normally.
Destroy(st) ==
    [ st EXCEPT !.destroyed = st.destroyed \cup {GetObject(st)} ]

\* Variant of StopReplace that marks the current Component Stopped and keeps
\* its mdc field.
StopReplace_KeepObject(st) ==
    [ st EXCEPT !.heap[st.comp].status = Stopped ]

\* Variant of StopReplace that resets the current Component in place instead
\* of allocating a new one.
StopReplace_InPlace(st) ==
    [ st EXCEPT !.heap[st.comp] = Component(NilObject, Stopped) ]

\* Variant of StopReplace that installs a zero-valued Component.
StopReplace_ZeroValue(st) == SetComponent(st, Uninitialized)

\* Variant of StopReplace that carries the old object over into the new
\* Component.
StopReplace_CopyObject(st) ==
    [ st EXCEPT !.heap = Append(st.heap, Component(GetObject(st), Stopped)),
                !.comp = Len(st.heap) + 1 ]

\* Stop, line 185: c.SetComponent(&Component{status: Stopped}).
StopReplace(st) == SetComponent(st, Stopped)

\* Variant of Stop that installs the Stopped Component even when destroy
\* throws.
Stop_ReplaceOnFault(c, st, env) ==
    LET chk == StopCheck(st) IN
    IF chk # NoError
    THEN Result(st, chk, 0, <<>>, 0, NoHook, <<>>, NoError)
    ELSE IF env.destroyFault
    THEN Result(StopReplace(st), ErrDestroyFault, 0, <<>>, 0, NoHook,
                <<GetObject(st)>>, NoError)
    ELSE Result(StopReplace(Destroy(st)), NoError, 0, <<>>, 0, NoHook,
                <<GetObject(st)>>, NoError)

\* Stop(c).  A fault thrown by destroy unwinds to the deferred
\* gojs.CatchException (line 172), which stores it in err; nothing after
\* line 184 runs.
Stop(c, st, env) ==
    LET chk == StopCheck(st) IN
    IF chk # NoError
    THEN Result(st, chk, 0, <<>>, 0, NoHook, <<>>, NoError)
    ELSE IF env.destroyFault
    THEN Result(st, ErrDestroyFault, 0, <<>>, 0, NoHook, <<GetObject(st)>>, NoError)
    ELSE Result(StopReplace(Destroy(st)), NoError, 0, <<>>, 0, NoHook,
                <<GetObject(st)>>, NoError)

\* Variant of StartSwitch that tests for a Running Component before it tests
\* rootElem.
StartSwitch_RunningFirst(st, rootElem) ==
    IF GetComponent(st) # NilComponent /\ Status(st) = Running THEN "alreadyStarted"
    ELSE IF rootElem = RootNil \/ rootElem = RootUndefined THEN "rootElemNil"
    ELSE IF GetComponent(st) = NilComponent THEN "allocate"
    ELSE "proceed"

\* Variant of StartSwitch without the Running case.
StartSwitch_NoRunningCase(st, rootElem) ==
    IF rootElem = RootNil \/ rootElem = RootUndefined THEN "rootElemNil"
    ELSE IF GetComponent(st) = NilComponent THEN "allocate"
    ELSE "proceed"

\* Variant of StartSwitch that tests for a missing Component before it tests
\* rootElem.
StartSwitch_AllocateFirst(st, rootElem) ==
    IF GetComponent(st) = NilComponent THEN "allocate"
    ELSE IF rootElem = RootNil \/ rootElem = RootUndefined THEN "rootElemNil"
    ELSE IF Status(st) = Running THEN "alreadyStarted"
    ELSE "proceed"

----------------------------------------------------------------------------
\* Start, lines 123-130: the first switch.  Go evaluates the cases in order
\* and runs only the first that matches.
StartSwitch(st, rootElem) ==
    IF rootElem = RootNil \/ rootElem = RootUndefined THEN "rootElemNil"
    ELSE IF GetComponent(st) = NilComponent THEN "allocate"
    ELSE IF Status(st) = Running THEN "alreadyStarted"
    ELSE "proceed"

\* The class object MDCClass() returns, and the one found under the global
\* "mdc" by the two name tokens.
ExplicitClass == <<"MDCClass">>
NamedClass(CCaseName, ClassName) == <<"mdc", CCaseName, ClassName>>

\* Variant of Resolve that does not test the name tokens for emptiness.
Resolve_NoEmptyCheck(c) ==
    IF c.MDCClasser
    THEN [ err |-> NoError, class |-> ExplicitClass ]
    ELSE IF c.ComponentTyper
    THEN [ err |-> NoError,
           class |-> NamedClass(c.MDCCamelCaseName, c.MDCClassName) ]
    ELSE [ err |-> ErrNoCapability, class |-> <<>> ]

\* Variant of Resolve whose type switch lists ComponentTyper first.
Resolve_TyperFirst(c) ==
    IF c.ComponentTyper
    THEN IF c.MDCCamelCaseName = "" \/ c.MDCClassName = ""
         THEN [ err |-> ErrEmptyString, class |-> <<>> ]
         ELSE [ err |-> NoError,
                class |-> NamedClass(c.MDCCamelCaseName, c.MDCClassName) ]
    ELSE IF c.MDCClasser
    THEN [ err |-> NoError, class |-> ExplicitClass ]
    ELSE [ err |-> ErrNoCapability, class |-> <<>> ]

\* Start, lines 134-149: the type switch that finds the MDC class.
Resolve(c) ==
    IF c.MDCClasser
    THEN [ err |-> NoError, class |-> ExplicitClass ]
    ELSE IF c.ComponentTyper
    THEN IF c.MDCCamelCaseName = "" \/ c.MDCClassName = ""
         THEN [ err |-> ErrEmptyString, class |-> <<>> ]
         ELSE [ err |-> NoError,
                class |-> NamedClass(c.MDCCamelCaseName, c.MDCClassName) ]
    ELSE [ err |-> ErrNoCapability, class |-> <<>> ]

\* Variant of New that hands back the most recently constructed object.
New_Reuse(n) == IF n = 0 THEN 1 ELSE n

\* Start, line 152: newMDCClassObj.New(rootElem) returning normally yields
\* an object that did not exist before.
New(n) == n + 1

\* Variant of StoreRunning that writes through a pointer to the first
\* Component ever allocated instead of the owner's current one.
StoreRunning_StalePointer(st, obj) ==
    [ st EXCEPT !.heap[1] = Component(obj, Running), !.objs = obj ]

\* Variant of StoreRunning that sets the status and does not store the
\* object.
StoreRunning_NoObject(st, obj) ==
    [ st EXCEPT !.heap[st.comp].status = Running, !.objs = obj ]

\* Variant of StoreRunning that stores the object and leaves the status.
StoreRunning_NoStatus(st, obj) ==
    [ st EXCEPT !.heap[st.comp].mdc = obj, !.objs = obj ]

\* Start, lines 153-154: store the object, set the status.
StoreRunning(st, obj) ==
    [ st EXCEPT !.heap[st.comp] = Component(obj, Running), !.objs = obj ]

\* Variant of AfterStartStep that returns the error of the rollback Stop
\* when there is one.
AfterStartStep_ReturnStopErr(c, s2, env, class) ==
    IF ~c.AfterStarter
    THEN Result(s2, NoError, 1, <<class>>, 0, NoHook, <<>>, NoError)
    ELSE CASE env.afterStart = "ok" ->
                Result(s2, NoError, 1, <<class>>, 1, s2.heap[s2.comp], <<>>, NoError)
           [] env.afterStart = "fault" ->
                Result(s2, ErrAfterStartFault, 1, <<class>>, 1, s2.heap[s2.comp],
                       <<>>, NoError)
           [] OTHER ->
                LET r == Stop(c, s2, env) IN
                Result(r.st, IF r.err # NoError THEN r.err ELSE ErrAfterStart,
                       1, <<class>>, 1, s2.heap[s2.comp], r.destroyCalls, r.err)

\* Start, lines 156-163: the AfterStarter type switch.  s2 is the state in
\* which the hook runs.  A fault thrown by the hook unwinds to Start's
\* deferred gojs.CatchException (line 121); an error it returns makes Start
\* call Stop(c), drop Stop's result and return the hook's error.
AfterStartStep(c, s2, env, class) ==
    IF ~c.AfterStarter
    THEN Result(s2, NoError, 1, <<class>>, 0, NoHook, <<>>, NoError)
    ELSE CASE env.afterStart = "ok" ->
                Result(s2, NoError, 1, <<class>>, 1, s2.heap[s2.comp], <<>>, NoError)
           [] env.afterStart = "fault" ->
                Result(s2, ErrAfterStartFault, 1, <<class>>, 1, s2.heap[s2.comp],
                       <<>>, NoError)
           [] OTHER ->
                LET r == Stop(c, s2, env) IN
                Result(r.st, ErrAfterStart, 1, <<class>>, 1, s2.heap[s2.comp],
                       r.destroyCalls, r.err)

\* Variant of Start that sets the status to Running before it calls New.
Start_RunningBeforeNew(c, st, rootElem, env) ==
    LET sw == StartSwitch(st, rootElem) IN
    IF sw = "rootElemNil"
    THEN Result(st, ErrRootElemNil, 0, <<>>, 0, NoHook, <<>>, NoError)
    ELSE IF sw = "alreadyStarted"
    THEN Result(st, ErrAlreadyStarted, 0, <<>>, 0, NoHook, <<>>, NoError)
    ELSE
      LET s1 == IF sw = "allocate" THEN SetComponent(st, Uninitialized) ELSE st
          r  == Resolve(c)
          sr == [ s1 EXCEPT !.heap[s1.comp].status = Running ]
      IN
      IF r.err # NoError
      THEN Result(s1, r.err, 1, <<>>, 0, NoHook, <<>>, NoError)
      ELSE IF env.newFault
      THEN Result(sr, ErrNewFault, 1, <<r.class>>, 0, NoHook, <<>>, NoError)
      ELSE AfterStartStep(c, StoreRunning(sr, New(sr.objs)), env, r.class)

\* Start(c, rootElem).
Start(c, st, rootElem, env) ==
    LET sw == StartSwitch(st, rootElem) IN
    IF sw = "rootElemNil"
    THEN Result(st, ErrRootElemNil, 0, <<>>, 0, NoHook, <<>>, NoError)
    ELSE IF sw = "alreadyStarted"
    THEN Result(st, ErrAlreadyStarted, 0, <<>>, 0, NoHook, <<>>, NoError)
    ELSE
      LET s1 == IF sw = "allocate" THEN SetComponent(st, Uninitialized) ELSE st
          r  == Resolve(c)
      IN
      IF r.err # NoError
      THEN Result(s1, r.err, 1, <<>>, 0, NoHook, <<>>, NoError)
      ELSE IF env.newFault
      THEN Result(s1, ErrNewFault, 1, <<r.class>>, 0, NoHook, <<>>, NoError)
      ELSE AfterStartStep(c, StoreRunning(s1, New(s1.objs)), env, r.class)

----------------------------------------------------------------------------
\* Package checkbox.  StateType (iota enumeration).
UNKNOWN == 0
DISABLED == 1
UNCHECKED == 2
UNCHECKED_DISABLED == 3
CHECKED == 4
CHECKED_DISABLED == 5
INDETERMINATE == 6
INDETERMINATE_DISABLED == 7
StateTypes == UNKNOWN..INDETERMINATE_DISABLED

\* Texts the value field of a checkbox takes here.
CheckboxValues == {"", "on"}

\* The fields of the MDC checkbox object that the checkbox methods read and
\* write through GetObject(): three booleans and the value text.
CheckboxObjects ==
    [ checked : BOOLEAN, indeterminate : BOOLEAN, disabled : BOOLEAN,
      value : CheckboxValues ]

\* checkbox.Value()
CheckboxValue(o) == o.value

\* checkbox.SetValue(v)
CheckboxSetValue(o, v) == [ o EXCEPT !.value = v ]

\* checkbox.State()
CheckboxState(o) ==
    LET s == IF o.indeterminate THEN INDETERMINATE
             ELSE IF ~o.checked THEN UNCHECKED
             ELSE IF o.checked THEN CHECKED
             ELSE UNKNOWN
    IN IF o.disabled THEN s + DISABLED ELSE s

\* Variant of CheckboxSetState whose UNCHECKED and CHECKED cases leave the
\* indeterminate field alone.
CheckboxSetState_KeepIndeterminate(o, s) ==
    IF s = UNKNOWN
    THEN [ obj |-> o, panic |-> TRUE ]
    ELSE
      LET o1 == CASE s \in {INDETERMINATE, INDETERMINATE_DISABLED} ->
                       [ o EXCEPT !.indeterminate = TRUE ]
                  [] s \in {UNCHECKED, UNCHECKED_DISABLED} ->
                       [ o EXCEPT !.checked = FALSE ]
                  [] s \in {CHECKED, CHECKED_DISABLED} ->
                       [ o EXCEPT !.checked = TRUE ]
                  [] OTHER -> o
      IN [ obj |-> [ o1 EXCEPT !.disabled = (s % 2 # 0) ], panic |-> FALSE ]

\* checkbox.SetState(s).  UNKNOWN panics before anything is written; DISABLED
\* matches no case of the switch and only reaches the s%2 test.
CheckboxSetState(o, s) ==
    IF s = UNKNOWN
    THEN [ obj |-> o, panic |-> TRUE ]
    ELSE
      LET o1 == CASE s \in {INDETERMINATE, INDETERMINATE_DISABLED} ->
                       [ o EXCEPT !.indeterminate = TRUE ]
                  [] s \in {UNCHECKED, UNCHECKED_DISABLED} ->
                       [ o EXCEPT !.checked = FALSE, !.indeterminate = FALSE ]
                  [] s \in {CHECKED, CHECKED_DISABLED} ->
                       [ o EXCEPT !.checked = TRUE, !.indeterminate = FALSE ]
                  [] OTHER -> o
      IN [ obj |-> [ o1 EXCEPT !.disabled = (s % 2 # 0) ], panic |-> FALSE ]

\* The checkbox object before any call is recorded.
NoCheckboxCall ==
    [ op |-> "none", arg |-> UNKNOWN, ret |-> UNKNOWN, text |-> "",
      panic |-> FALSE,
      pre |-> [ checked |-> FALSE, indeterminate |-> FALSE, disabled |-> FALSE,
                value |-> "" ] ]

----------------------------------------------------------------------------
\* An owner starts with no Component (toolbar.T{}) or with a zero-valued one
\* (toolbar.T{Component: &component.Component{}}).
InitialStates ==
    { State(NilComponent, <<>>, 0, {}),
      State(1, <<Component(NilObject, Uninitialized)>>, 0, {}) }

Current == State(comp, heap, objs, destroyed)

NoEnv == [ newFault |-> FALSE, afterStart |-> "ok", destroyFault |-> FALSE ]

Init ==
    /\ owner \in Owners
    /\ \E st \in InitialStates :
         /\ comp = st.comp
         /\ heap = st.heap
         /\ objs = st.objs
         /\ destroyed = st.destroyed
         /\ last = [ op |-> "none", rootElem |-> RootNil, env |-> NoEnv, pre |-> st,
                     preHeld |-> {},
                     err |-> NoError, resolved |-> 0, newCalls |-> <<>>,
                     hookCalls |-> 0, hookSaw |-> NoHook, destroyCalls |-> <<>>,
                     stopErr |-> NoError ]
    /\ held = {}
    /\ alternating = TRUE
    /\ cb = NoCheckboxCall.pre
    /\ cbSet = UNKNOWN
    /\ cbLast = NoCheckboxCall

\* The call leaves the explored part of the state space.
WithinBounds(st) == Len(st.heap) <= MaxWrappers /\ st.objs <= MaxObjects

\* The record kept of a call op made in state Current with outcome r.
LastRecord(op, rootElem, env, r) ==
    [ op |-> op, rootElem |-> rootElem, env |-> env, pre |-> Current,
      preHeld |-> held,
      err |-> r.err, resolved |-> r.resolved, newCalls |-> r.newCalls,
      hookCalls |-> r.hookCalls, hookSaw |-> r.hookSaw,
      destroyCalls |-> r.destroyCalls, stopErr |-> r.stopErr ]

\* The objects the owner's Component has held up to the end of a call with
\* outcome r (the object AfterStart saw counts, even if rolled back).
HeldAfter(r) == (held \cup {r.hookSaw.mdc, OwnerObject(r.st)}) \ {NilObject}

\* The next Start, on owner c, continues a valid alternating run.
ValidStart(c, rootElem, env) ==
    /\ last.op # "Start"
    /\ rootElem = RootElem
    /\ Resolve(c).err = NoError
    /\ ~env.newFault
    /\ (c.AfterStarter => env.afterStart = "ok")

\* The interfaces an owner implements belong to its type; the ComponentType
\* it reports is read anew by every Start (lines 139-140) and may differ
\* from one call to the next.
SameType(c, d) ==
    /\ d.MDCClasser = c.MDCClasser
    /\ d.ComponentTyper = c.ComponentTyper
    /\ d.AfterStarter = c.AfterStarter

\* The next Stop continues a valid alternating run.
ValidStop(env) == last.op = "Start" /\ ~env.destroyFault

\* A caller invokes component.Start(owner, rootElem); c is the owner with the
\* ComponentType it reports during this call.
StartCall ==
    \E rootElem \in RootElems, env \in Envs, c \in Owners :
        LET r == Start(c, Current, rootElem, env) IN
        /\ SameType(owner, c)
        /\ WithinBounds(r.st)
        /\ owner' = c
        /\ comp' = r.st.comp
        /\ heap' = r.st.heap
        /\ objs' = r.st.objs
        /\ destroyed' = r.st.destroyed
        /\ held' = HeldAfter(r)
        /\ alternating' = (alternating /\ ValidStart(c, rootElem, env))
        /\ last' = LastRecord("Start", rootElem, env, r)
        /\ UNCHANGED checkboxVars

\* A caller invokes component.Stop(owner).  Stop neither constructs nor runs
\* the hook, so only the outcome of destroy is an input.
StopCall ==
    \E env \in Envs :
        LET r == Stop(owner, Current, env) IN
        /\ env.newFault = FALSE /\ env.afterStart = "ok"
        /\ WithinBounds(r.st)
        /\ comp' = r.st.comp
        /\ heap' = r.st.heap
        /\ objs' = r.st.objs
        /\ destroyed' = r.st.destroyed
        /\ held' = HeldAfter(r)
        /\ alternating' = (alternating /\ ValidStop(env))
        /\ last' = LastRecord("Stop", RootNil, env, r)
        /\ UNCHANGED owner
        /\ UNCHANGED checkboxVars

Next == StartCall \/ StopCall

Spec == Init /\ [][Next]_vars

----------------------------------------------------------------------------
\* The checkbox on its own: a started component (State and SetState go
\* through GetObject(), which is non-nil only while Running) whose MDC object
\* has any values in its three fields.
InitCheckbox ==
    /\ owner = [ MDCClasser |-> FALSE, ComponentTyper |-> TRUE,
                 AfterStarter |-> FALSE, MDCCamelCaseName |-> "textField",
                 MDCClassName |-> "MDCTextField" ]
    /\ comp = 1
    /\ heap = <<Component(1, Running)>>
    /\ objs = 1
    /\ destroyed = {}
    /\ held = {1}
    /\ alternating = TRUE
    /\ last = [ op |-> "none", rootElem |-> RootNil, env |-> NoEnv,
                pre |-> State(1, <<Component(1, Running)>>, 1, {}),
                preHeld |-> {1},
                err |-> NoError, resolved |-> 0, newCalls |-> <<>>,
                hookCalls |-> 0, hookSaw |-> NoHook, destroyCalls |-> <<>>,
                stopErr |-> NoError ]
    /\ cb \in CheckboxObjects
    /\ cbSet = UNKNOWN
    /\ cbLast = [ NoCheckboxCall EXCEPT !.pre = cb ]

\* A caller invokes SetState(s) on the checkbox.
SetStateCall ==
    \E s \in StateTypes :
        LET r == CheckboxSetState(cb, s) IN
        /\ cb' = r.obj
        /\ cbSet' = IF r.panic THEN cbSet ELSE s
        /\ cbLast' = [ op |-> "SetState", arg |-> s, ret |-> UNKNOWN, text |-> "",
                       panic |-> r.panic, pre |-> cb ]
        /\ UNCHANGED lifecycleVars

\* A caller invokes State() on the checkbox.
StateCall ==
    /\ cbLast' = [ op |-> "State", arg |-> UNKNOWN, ret |-> CheckboxState(cb),
                   text |-> "", panic |-> FALSE, pre |-> cb ]
    /\ UNCHANGED <<cb, cbSet>>
    /\ UNCHANGED lifecycleVars

\* A caller invokes SetValue(v) on the checkbox.
SetValueCall ==
    \E v \in CheckboxValues :
        /\ cb' = CheckboxSetValue(cb, v)
        /\ cbLast' = [ op |-> "SetValue", arg |-> UNKNOWN, ret |-> UNKNOWN,
                       text |-> v, panic |-> FALSE, pre |-> cb ]
        /\ UNCHANGED cbSet
        /\ UNCHANGED lifecycleVars

\* A caller invokes Value() on the checkbox.
ValueCall ==
    /\ cbLast' = [ op |-> "Value", arg |-> UNKNOWN, ret |-> UNKNOWN,
                   text |-> CheckboxValue(cb), panic |-> FALSE, pre |-> cb ]
    /\ UNCHANGED <<cb, cbSet>>
    /\ UNCHANGED lifecycleVars

NextCheckbox == SetStateCall \/ StateCall \/ SetValueCall \/ ValueCall

SpecCheckbox == InitCheckbox /\ [][NextCheckbox]_vars

----------------------------------------------------------------------------
\* Shorthands for the properties: the owner before and after the last call.
PreStatus == OwnerStatus(last.pre)
PreObject == OwnerObject(last.pre)
NowStatus == OwnerStatus(Current)
NowObject == OwnerObject(Current)
RootIsNull == last.rootElem \in {RootNil, RootUndefined}
HookAbsentOrOk == owner.AfterStarter => last.env.afterStart = "ok"
StopStateErrors == {ErrGetComponentNil, ErrAlreadyStopped, ErrUninitialized}

\* C1: a Start on an owner that is Uninitialized (no Component, or a
\* zero-valued one) or Stopped, given a non-null rootElem, a resolvable MDC
\* class, a constructor that does not throw and an AfterStart that is absent
\* or returns nil, returns nil and leaves the owner Running with a non-nil
\* object, whatever calls came before.
C1_StartSucceeds ==
    ( /\ last.op = "Start"
      /\ PreStatus \in {Uninitialized, Stopped}
      /\ last.rootElem = RootElem
      /\ Resolve(owner).err = NoError
      /\ ~last.env.newFault
      /\ HookAbsentOrOk )
    => ( /\ last.err = NoError
         /\ comp # NilComponent
         /\ NowStatus = Running
         /\ NowObject # NilObject )

\* A Start that succeeds on a Stopped owner whose earlier object was
\* destroyed.
C1_Witness ==
    /\ last.op = "Start"
    /\ PreStatus = Stopped
    /\ last.rootElem = RootElem
    /\ Resolve(owner).err = NoError
    /\ ~last.env.newFault
    /\ HookAbsentOrOk
    /\ last.pre.destroyed # {}
    /\ last.err = NoError
    /\ NowStatus = Running

\* C2: when AfterStart returns an error during Start, Start returns that
\* error, destroy has been called exactly once on the object this Start
\* constructed, and the owner ends Stopped without an object.
C2_HookFailureRollsBack ==
    ( /\ last.op = "Start"
      /\ last.hookCalls = 1
      /\ last.env.afterStart = "error" )
    => ( /\ last.err = ErrAfterStart
         /\ last.destroyCalls = <<last.hookSaw.mdc>>
         /\ NowStatus = Stopped
         /\ NowObject = NilObject )

\* C3: every Start on an owner that is not Running and that returns a
\* non-nil error leaves the owner not Running and without an object,
\* whatever the cause of the failure.
C3_FailedStartNotRunning ==
    ( /\ last.op = "Start"
      /\ PreStatus # Running
      /\ last.err # NoError )
    => ( /\ NowStatus # Running
         /\ NowObject = NilObject )

\* C4: between calls, the owner's Component has a non-nil object exactly
\* when its status is Running.
C4_ObjectIffRunning ==
    comp # NilComponent =>
        ( (heap[comp].mdc # NilObject) <=> (heap[comp].status = Running) )

\* The owner is still Running, object in place, after a Stop whose destroy
\* threw.
C4_Witness ==
    /\ comp # NilComponent
    /\ heap[comp].status = Running
    /\ heap[comp].mdc # NilObject
    /\ last.op = "Stop"
    /\ last.err = ErrDestroyFault
    /\ destroyed # {}

\* C5: Start on a Running owner with a non-null rootElem returns "already
\* started", constructs nothing, does not call AfterStart, and leaves the
\* owner's Component pointer and every Component unchanged.
C5_StartOnRunningRejected ==
    ( /\ last.op = "Start"
      /\ PreStatus = Running
      /\ last.rootElem = RootElem )
    => ( /\ last.err = ErrAlreadyStarted
         /\ last.newCalls = <<>>
         /\ last.hookCalls = 0
         /\ last.destroyCalls = <<>>
         /\ comp = last.pre.comp
         /\ heap = last.pre.heap
         /\ objs = last.pre.objs )

\* A rejected double Start.
C5_Witness ==
    /\ last.op = "Start"
    /\ PreStatus = Running
    /\ last.rootElem = RootElem
    /\ last.err = ErrAlreadyStarted
    /\ NowStatus = Running
    /\ NowObject = PreObject

\* C6: Start with a nil or undefined rootElem returns the rootElem error from
\* every starting state and changes nothing: no Component is allocated, no
\* class is resolved, nothing is constructed.
C6_NullRootElemRejected ==
    ( last.op = "Start" /\ RootIsNull )
    => ( /\ last.err = ErrRootElemNil
         /\ comp = last.pre.comp
         /\ heap = last.pre.heap
         /\ objs = last.pre.objs
         /\ destroyed = last.pre.destroyed
         /\ last.resolved = 0
         /\ last.newCalls = <<>>
         /\ last.hookCalls = 0 )

\* Start(owner, js.Undefined) on an owner that has no Component yet.
C6_Witness ==
    /\ last.op = "Start"
    /\ last.rootElem = RootUndefined
    /\ last.pre.comp = NilComponent
    /\ comp = NilComponent
    /\ heap = <<>>
    /\ last.err = ErrRootElemNil

\* C7: Stop on a Running owner whose destroy returns normally returns nil,
\* calls destroy exactly once, on the owner's object, and leaves the owner
\* with a newly allocated Component that is Stopped and has no object.
C7_StopReplacesComponent ==
    ( /\ last.op = "Stop"
      /\ PreStatus = Running
      /\ ~last.env.destroyFault )
    => ( /\ last.err = NoError
         /\ last.destroyCalls = <<PreObject>>
         /\ PreObject \in destroyed
         /\ comp # last.pre.comp
         /\ comp \notin DOMAIN last.pre.heap
         /\ comp \in DOMAIN heap
         /\ heap[comp] = Component(NilObject, Stopped)
         /\ NowObject # PreObject )

\* A successful Stop of a Running owner.
C7_Witness ==
    /\ last.op = "Stop"
    /\ PreStatus = Running
    /\ PreObject # NilObject
    /\ ~last.env.destroyFault
    /\ last.err = NoError
    /\ NowStatus = Stopped

\* C8: Stop on an owner without a Component, or whose status is Stopped or
\* Uninitialized, returns a state error, never calls destroy, and leaves the
\* Component pointer and every Component unchanged.
C8_StopWhenNotRunningRejected ==
    ( /\ last.op = "Stop"
      /\ PreStatus \in {Uninitialized, Stopped} )
    => ( /\ last.err \in StopStateErrors
         /\ last.destroyCalls = <<>>
         /\ comp = last.pre.comp
         /\ heap = last.pre.heap
         /\ destroyed = last.pre.destroyed )

\* Stop on an owner holding a zero-valued Component.
C8_Witness ==
    /\ last.op = "Stop"
    /\ last.pre.comp # NilComponent
    /\ PreStatus = Uninitialized
    /\ last.err = ErrUninitialized
    /\ comp = last.pre.comp

\* C9: as long as the calls alternate Start, Stop, Start, ... with valid
\* inputs and no foreign fault, every call returns nil and the object held
\* after each Start was never held and never destroyed before.
C9_RoundTripFreshObject ==
    ( alternating /\ last.op # "none" )
    => ( /\ last.err = NoError
         /\ last.op = "Start" =>
              ( /\ NowObject # NilObject
                /\ NowObject \notin last.preHeld
                /\ NowObject \notin last.pre.destroyed ) )

\* The third Start of Start, Stop, Start, Stop, Start.
C9_Witness ==
    /\ alternating
    /\ last.op = "Start"
    /\ Cardinality(last.preHeld) = 2
    /\ Cardinality(destroyed) = 2
    /\ NowObject # NilObject

\* C10: for an owner that is both an MDCClasser and a ComponentTyper, Start
\* constructs from the class MDCClass() returns and does not look at the
\* ComponentType: empty name tokens cause no error.
C10_ExplicitClassFirst ==
    ( /\ last.op = "Start"
      /\ owner.MDCClasser /\ owner.ComponentTyper
      /\ last.rootElem = RootElem
      /\ PreStatus # Running )
    => ( /\ last.newCalls = <<ExplicitClass>>
         /\ last.err \notin {ErrEmptyString, ErrNoCapability} )

\* Such an owner, with empty name tokens, started successfully.
C10_Witness ==
    /\ last.op = "Start"
    /\ owner.MDCClasser /\ owner.ComponentTyper
    /\ owner.MDCCamelCaseName = "" /\ owner.MDCClassName = ""
    /\ last.newCalls = <<ExplicitClass>>
    /\ last.err = NoError
    /\ NowStatus = Running

\* The owner has only the ComponentTyper way of naming its class and one of
\* the two tokens is empty, or it has neither way.
Unresolvable ==
    /\ ~owner.MDCClasser
    /\ owner.ComponentTyper =>
         (owner.MDCCamelCaseName = "" \/ owner.MDCClassName = "")

\* C11: when the MDC class cannot be found (ComponentTyper only, with an
\* empty token, or neither interface), Start returns the corresponding
\* configuration error, constructs nothing, does not call AfterStart, and
\* the owner's status after the call is its status before the call.
C11_ResolutionFailure ==
    ( /\ last.op = "Start"
      /\ last.rootElem = RootElem
      /\ PreStatus # Running
      /\ Unresolvable )
    => ( /\ last.err = (IF owner.ComponentTyper THEN ErrEmptyString
                                                ELSE ErrNoCapability)
         /\ last.newCalls = <<>>
         /\ last.hookCalls = 0
         /\ objs = last.pre.objs
         /\ NowObject = NilObject
         /\ NowStatus = PreStatus )

\* A ComponentTyper owner with an empty class name fails to Start.
C11_Witness ==
    /\ last.op = "Start"
    /\ last.rootElem = RootElem
    /\ ~owner.MDCClasser /\ owner.ComponentTyper
    /\ owner.MDCCamelCaseName # "" /\ owner.MDCClassName = ""
    /\ PreStatus = Stopped
    /\ last.err = ErrEmptyString
    /\ NowStatus = Stopped

\* The last call was a Start that went as far as calling New.
ReachedNew ==
    /\ last.op = "Start"
    /\ last.rootElem = RootElem
    /\ PreStatus # Running
    /\ ~Unresolvable

\* C12: when New throws during Start, Start returns an error carrying the
\* fault, the owner's status is what it was before the call, no object is
\* stored, and AfterStart is not called.
C12_ConstructorFault ==
    ( ReachedNew /\ last.env.newFault )
    => ( /\ last.err = ErrNewFault
         /\ NowStatus = PreStatus
         /\ NowObject = NilObject
         /\ objs = last.pre.objs
         /\ last.hookCalls = 0
         /\ last.destroyCalls = <<>> )

\* New throws for an owner with an AfterStart hook that was Stopped.
C12_Witness ==
    /\ ReachedNew
    /\ last.env.newFault
    /\ owner.AfterStarter
    /\ PreStatus = Stopped
    /\ last.err = ErrNewFault
    /\ NowStatus = Stopped

\* C13: the Component that Start allocates for an owner without one has
\* status Stopped, so that after a resolution error or a constructor fault
\* the owner holds a Stopped Component.
C13_AllocatedStopped ==
    ( /\ last.op = "Start"
      /\ last.rootElem = RootElem
      /\ last.pre.comp = NilComponent
      /\ last.err \in {ErrEmptyString, ErrNoCapability, ErrNewFault} )
    => ( /\ comp # NilComponent
         /\ NowStatus = Stopped
         /\ StopCheck(Current) = ErrAlreadyStopped )

\* C14: from one call to the next the owner's status moves only along
\* Uninitialized -> Stopped -> Running -> Stopped -> ...: a status that
\* leaves Running becomes Stopped, a status that has been Stopped or Running
\* never becomes Uninitialized again, and Running is not re-entered directly
\* (an owner Running before and after a call still holds the same object).
C14_StatusTransitions ==
    [][ /\ (NowStatus = Running /\ NowStatus' # Running) => NowStatus' = Stopped
        /\ (NowStatus # Uninitialized) => NowStatus' # Uninitialized
        /\ (NowStatus # Running /\ NowStatus' = Running) =>
               NowStatus \in {Uninitialized, Stopped}
        /\ (NowStatus = Running /\ NowStatus' = Running) =>
               NowObject' = NowObject ]_vars

\* The owner has gone Uninitialized, Running, Stopped, Running, Stopped.
C14_Witness ==
    /\ last.op = "Stop"
    /\ PreStatus = Running
    /\ NowStatus = Stopped
    /\ Cardinality(destroyed) = 2
    /\ heap[1].status = Running

\* C15: after a successful Stop no Component, neither the owner's new one
\* nor the replaced one, refers to the object that was destroyed.
C15_NoComponentHoldsDestroyed ==
    ( last.op = "Stop" /\ last.err = NoError )
    => \A i \in DOMAIN heap : heap[i].mdc \notin destroyed

\* C15, amended: the owner's current Component never refers to a destroyed
\* object, and after a successful Stop it has no object at all; the replaced
\* Component is left as it was and still refers to the destroyed object.
C15_CurrentComponentHoldsNoDestroyed ==
    /\ NowObject \notin destroyed
    /\ ( last.op = "Stop" /\ last.err = NoError )
       => ( /\ NowObject = NilObject
            /\ heap[last.pre.comp] = last.pre.heap[last.pre.comp]
            /\ heap[last.pre.comp].mdc = PreObject
            /\ PreObject \in destroyed )

\* A successful Stop after which the old Component still carries the object.
C15_Witness ==
    /\ last.op = "Stop"
    /\ last.err = NoError
    /\ PreObject # NilObject
    /\ heap[last.pre.comp].mdc \in destroyed
    /\ NowObject = NilObject

\* C16: the status text is "uninitialized", "stopped", "running" for the
\* three statuses, and in every state the Component's String() is the text
\* of the owner's status, a nil Component reading "uninitialized".
C16_StatusText ==
    /\ StatusString(Uninitialized) = "uninitialized"
    /\ StatusString(Stopped) = "stopped"
    /\ StatusString(Running) = "running"
    /\ ComponentString(Current) =
          ( IF comp = NilComponent THEN "uninitialized"
            ELSE IF heap[comp].status = Stopped THEN "stopped"
            ELSE IF heap[comp].status = Running THEN "running"
            ELSE "uninitialized" )

\* A Running owner renders as "running".
C16_Witness ==
    /\ comp # NilComponent
    /\ heap[comp].status = Running
    /\ ComponentString(Current) = "running"
    /\ last.op = "Start"

\* Foreign objects constructed and not yet successfully destroyed.
LiveObjects == (1..objs) \ destroyed

\* C17: the objects constructed for the owner and not yet destroyed are at
\* most one, and that one is the object in the owner's current Component:
\* nothing live is unreferenced and nothing is constructed while one is live.
C17_AtMostOneLiveObject ==
    /\ Cardinality(LiveObjects) <= 1
    /\ LiveObjects = {NowObject} \ {NilObject}

\* A live object still held after a rollback whose destroy threw, with an
\* earlier object already destroyed.
C17_Witness ==
    /\ last.op = "Start"
    /\ last.stopErr = ErrDestroyFault
    /\ destroyed # {}
    /\ LiveObjects = {NowObject}

\* C18: Start makes its checks in the order rootElem, allocation, Running,
\* class resolution: a null rootElem on a Running owner gives the rootElem
\* error; a null rootElem on an owner without a Component allocates nothing;
\* a Running owner whose class cannot be resolved gets "already started".
C18_CheckOrder ==
    /\ ( last.op = "Start" /\ RootIsNull /\ PreStatus = Running )
       => last.err = ErrRootElemNil
    /\ ( last.op = "Start" /\ RootIsNull /\ last.pre.comp = NilComponent )
       => ( comp = NilComponent /\ heap = last.pre.heap )
    /\ ( last.op = "Start" /\ last.rootElem = RootElem /\ PreStatus = Running
         /\ Unresolvable )
       => ( last.err = ErrAlreadyStarted /\ last.resolved = 0 )

\* A Running owner that by now reports an empty class name is started again.
C18_Witness ==
    /\ last.op = "Start"
    /\ last.rootElem = RootElem
    /\ PreStatus = Running
    /\ Unresolvable
    /\ owner.ComponentTyper
    /\ last.err = ErrAlreadyStarted

\* Errors of a Start that fails before New has returned.
EarlyStartErrors ==
    {ErrRootElemNil, ErrAlreadyStarted, ErrEmptyString, ErrNoCapability, ErrNewFault}

\* C19: Start calls AfterStart at most once, only after New has returned
\* normally and the object and the Running status have been stored: the hook
\* sees status Running and the newly constructed object.  It is not called
\* on any path that fails before that.
C19_HookAfterStore ==
    last.op = "Start" =>
      ( /\ last.hookCalls <= 1
        /\ last.hookCalls = 1 =>
             ( /\ owner.AfterStarter
               /\ ~last.env.newFault
               /\ Len(last.newCalls) = 1
               /\ last.hookSaw.status = Running
               /\ last.hookSaw.mdc = last.pre.objs + 1
               /\ last.hookSaw.mdc \notin last.preHeld
               /\ last.hookSaw.mdc \notin last.pre.destroyed )
        /\ last.err \in EarlyStartErrors => last.hookCalls = 0 )

\* The hook ran on the second object of an owner and returned nil.
C19_Witness ==
    /\ last.op = "Start"
    /\ last.hookCalls = 1
    /\ last.env.afterStart = "ok"
    /\ last.hookSaw = Component(2, Running)
    /\ last.err = NoError

\* C20: when AfterStart returns an error and the rollback Stop fails because
\* destroy throws, Start returns the hook's error and nothing else: the
\* error of the rollback is dropped.
C20_RollbackErrorDiscarded ==
    ( /\ last.op = "Start"
      /\ last.hookCalls = 1
      /\ last.env.afterStart = "error"
      /\ last.env.destroyFault )
    => ( /\ last.err = ErrAfterStart
         /\ last.stopErr = ErrDestroyFault
         /\ last.destroyCalls = <<last.hookSaw.mdc>> )

\* A Start whose hook returned an error and whose rollback failed.
C20_Witness ==
    /\ last.op = "Start"
    /\ last.hookCalls = 1
    /\ last.env.afterStart = "error"
    /\ last.env.destroyFault
    /\ last.stopErr = ErrDestroyFault
    /\ last.err = ErrAfterStart

\* C21: when destroy throws during Stop on a Running owner, Stop returns an
\* error carrying the fault, the owner's Component is not replaced and stays
\* Running with the same object; a later Stop is therefore accepted and a
\* later Start is rejected as "already started".
C21_DestroyFaultKeepsRunning ==
    ( /\ last.op = "Stop"
      /\ PreStatus = Running
      /\ last.env.destroyFault )
    => ( /\ last.err = ErrDestroyFault
         /\ last.destroyCalls = <<PreObject>>
         /\ comp = last.pre.comp
         /\ heap = last.pre.heap
         /\ destroyed = last.pre.destroyed
         /\ NowStatus = Running
         /\ NowObject = PreObject
         /\ StopCheck(Current) = NoError
         /\ StartSwitch(Current, RootElem) = "alreadyStarted" )

\* A Stop whose destroy threw, on the second object of an owner.
C21_Witness ==
    /\ last.op = "Stop"
    /\ PreStatus = Running
    /\ last.env.destroyFault
    /\ last.err = ErrDestroyFault
    /\ NowObject = 2
    /\ comp = last.pre.comp

\* C22: a Component that Stop has replaced is frozen: no later Start or Stop
\* writes to a Component other than the owner's current one, and the Stop
\* that replaces a Component leaves it as it was.
C22_ReplacedComponentFrozen ==
    [][ /\ \A i \in DOMAIN heap : i # comp => heap'[i] = heap[i]
        /\ (last'.op = "Stop" /\ comp # NilComponent /\ comp' # comp) =>
               heap'[comp] = heap[comp] ]_vars

\* A later Start has succeeded on the new Component while the replaced one
\* still shows the status and object it had when it was replaced.
C22_Witness ==
    /\ last.op = "Start"
    /\ last.err = NoError
    /\ comp = 2
    /\ heap[1] = Component(1, Running)
    /\ heap[2] = Component(2, Running)

\* C23: for every StateType s other than UNKNOWN, State() after SetState(s)
\* returns s, whatever the three fields held before; and State() never
\* returns UNKNOWN.
C23_SetStateRoundTrip ==
    cbLast.op = "State" =>
      ( /\ cbLast.ret # UNKNOWN
        /\ cbSet # UNKNOWN => cbLast.ret = cbSet )

\* C23, amended: for every StateType s other than UNKNOWN and DISABLED,
\* State() after SetState(s) returns s, whatever the three fields held
\* before.  SetState(DISABLED) only sets the disabled field, so State() then
\* returns the disabled variant of the state the checked and indeterminate
\* fields already showed.  State() never returns UNKNOWN or DISABLED.
C23_SetStateRoundTripAmended ==
    /\ cbLast.op = "State" =>
         ( /\ cbLast.ret \notin {UNKNOWN, DISABLED}
           /\ cbSet \notin {UNKNOWN, DISABLED} => cbLast.ret = cbSet
           /\ cbSet = DISABLED =>
                cbLast.ret \in {UNCHECKED_DISABLED, CHECKED_DISABLED,
                                INDETERMINATE_DISABLED} )
    /\ ( cbLast.op = "SetState" /\ cbLast.arg = DISABLED ) =>
         ( /\ cb.disabled
           /\ cb.checked = cbLast.pre.checked
           /\ cb.indeterminate = cbLast.pre.indeterminate
           /\ CheckboxState(cb) =
                CheckboxState([ cbLast.pre EXCEPT !.disabled = FALSE ]) + DISABLED )

\* State() returns INDETERMINATE_DISABLED after SetState of it although the
\* checked field is still set from before.
C23_Witness ==
    /\ cbLast.op = "State"
    /\ cbSet = INDETERMINATE_DISABLED
    /\ cb.checked
    /\ cbLast.ret = INDETERMINATE_DISABLED

====
